---- MODULE Spec2Model ----
(***************************************************************************)
(* Model of app.py (Tiny SQL Expert): the validation-and-retry loop of     *)
(* run(), the candidate extraction it performs, and validate_sql with its  *)
(* helper checks.                                                          *)
(*                                                                         *)
(* Text.  A Python str is modelled as a sequence of lexical units.  Each   *)
(* unit is a piece of the string: either one punctuation or whitespace     *)
(* character, or a maximal run of word characters ([A-Za-z0-9_]) spelled   *)
(* out in full ("select", "Users", "x").  Two adjacent word units form one *)
(* longer word ("select","x" is the text selectx), so the word-boundary    *)
(* tests of the regular expressions are decided by the neighbouring unit.  *)
(* No keyword of the program occurs across the border of two units of the  *)
(* alphabet, so a keyword occurs in a text exactly where a unit spells it. *)
(***************************************************************************)
EXTENDS Integers, Sequences, FiniteSets, TLC

(***************************************************************************)
(* Bounds of the model.                                                    *)
(***************************************************************************)
MaxRetries == 2
MaxRawLen == 2
MaxLen == 3

(***************************************************************************)
(* Alphabet.                                                               *)
(***************************************************************************)
WordUnits ==
  {"select", "SELECT", "from", "Users", "DROP", "TABLE", "update", "x"}
SpaceUnits == {" ", "\n"}
PunctUnits == {";", "(", ")", "[", "]", "{", "}", "'", "\"", ","}
Units == WordUnits \cup SpaceUnits \cup PunctUnits

\* str.lower() / re.IGNORECASE on one unit
Lower(c) ==
  CASE c = "SELECT" -> "select"
    [] c = "Users" -> "users"
    [] c = "DROP" -> "drop"
    [] OTHER -> c

\* \w of the regular expressions
IsWord(c) == c \in WordUnits

\* the characters str.strip() removes
IsSpace(c) == c \in SpaceUnits

\* str.lower()
LowerStr(s) == [i \in 1..Len(s) |-> Lower(s[i])]

\* the strings over alphabet A of length at most n
RECURSIVE StringsUpTo(_, _)
StringsUpTo(A, n) ==
  IF n = 0 THEN {<< >>}
  ELSE LET shorter == StringsUpTo(A, n - 1)
       IN shorter \cup {Append(s, c) : s \in shorter, c \in A}

\* str.lstrip()
RECURSIVE LStrip(_)
LStrip(s) ==
  IF s = << >> THEN << >>
  ELSE IF IsSpace(Head(s)) THEN LStrip(Tail(s)) ELSE s

\* str.rstrip()
RECURSIVE RStrip(_)
RStrip(s) ==
  IF s = << >> THEN << >>
  ELSE IF IsSpace(s[Len(s)]) THEN RStrip(SubSeq(s, 1, Len(s) - 1)) ELSE s

\* str.strip()
Strip(s) == RStrip(LStrip(s))

\* str.count(c)
Count(s, c) == Cardinality({i \in 1..Len(s) : s[i] = c})

\* str.endswith(c) for a one-character c
EndsWith(s, c) == Len(s) > 0 /\ s[Len(s)] = c

\* str.splitlines(): the lines of s, without their line breaks; a final line
\* break does not open an empty last line
RECURSIVE SplitLinesFrom(_, _, _)
SplitLinesFrom(s, i, cur) ==
  IF i > Len(s) THEN (IF cur = << >> THEN << >> ELSE << cur >>)
  ELSE IF s[i] = "\n" THEN << cur >> \o SplitLinesFrom(s, i + 1, << >>)
  ELSE SplitLinesFrom(s, i + 1, Append(cur, s[i]))

SplitLines(s) == SplitLinesFrom(s, 1, << >>)

\* " ".join(parts)
RECURSIVE JoinSpace(_)
JoinSpace(parts) ==
  IF parts = << >> THEN << >>
  ELSE IF Len(parts) = 1 THEN parts[1]
  ELSE parts[1] \o << " " >> \o JoinSpace(Tail(parts))

(***************************************************************************)
(* Program constants (module level of app.py).                            *)
(***************************************************************************)
ALLOWED_TABLES == {"users", "orders", "products"}

FORBIDDEN_WORDS ==
  {"drop", "delete", "truncate", "update", "insert", "alter", "create",
   "grant", "revoke"}

\* re.search(r"\b" + re.escape(w) + r"\b", low): w occurs in low as a whole
\* word, i.e. a unit spells w and neither neighbour is a word unit
WholeWordIn(low, w) ==
  \E i \in 1..Len(low) :
    /\ low[i] = w
    /\ (i = 1 \/ ~IsWord(low[i - 1]))
    /\ (i = Len(low) \/ ~IsWord(low[i + 1]))

\* w in low (substring test)
SubstringIn(low, w) == \E i \in 1..Len(low) : low[i] = w

(***************************************************************************)
(* Validation functions.                                                   *)
(***************************************************************************)
Opener(ch) ==
  CASE ch = ")" -> "("
    [] ch = "]" -> "["
    [] ch = "}" -> "{"
    [] OTHER -> ""

\* the for loop of parentheses_match from position i on, with the stack so far
RECURSIVE ParenScan(_, _, _)
ParenScan(s, i, stack) ==
  IF i > Len(s) THEN stack = << >>
  ELSE IF s[i] \in {"(", "[", "{"} THEN ParenScan(s, i + 1, Append(stack, s[i]))
  ELSE IF s[i] \in {")", "]", "}"}
       THEN IF stack = << >> \/ stack[Len(stack)] # Opener(s[i])
            THEN FALSE
            ELSE ParenScan(s, i + 1, SubSeq(stack, 1, Len(stack) - 1))
  ELSE ParenScan(s, i + 1, stack)

\* a bracket check that only compares the numbers of openers and closers
parentheses_match_CountOnly(s) ==
  /\ Count(s, "(") = Count(s, ")")
  /\ Count(s, "[") = Count(s, "]")
  /\ Count(s, "{") = Count(s, "}")

parentheses_match(s) == ParenScan(s, 1, << >>)

quotes_match(s) == Count(s, "'") % 2 = 0 /\ Count(s, "\"") % 2 = 0

\* contains_forbidden searching sql itself instead of its lower-case form
contains_forbidden_CaseSensitive(sql) ==
  {kw \in FORBIDDEN_WORDS : WholeWordIn(sql, kw)}

\* the keywords found; the list is in the iteration order of a Python set,
\* which is not fixed, so the result is kept as the set of its elements
contains_forbidden(sql) ==
  LET low == LowerStr(sql)
  IN {kw \in FORBIDDEN_WORDS : WholeWordIn(low, kw)}

has_select_from(sql) ==
  LET low == LowerStr(sql)
  IN SubstringIn(low, "select") /\ SubstringIn(low, "from")

\* the first component of the pair uses_known_tables returns
uses_known_tables(sql) ==
  LET low == LowerStr(sql)
      used == {t \in ALLOWED_TABLES : WholeWordIn(low, t)}
  IN Cardinality(used) > 0

\* parserRaises: sqlparse.parse raises on this call (the except branch).
\* Otherwise parsed is empty only for the empty text, token_first is None only
\* for a statement of whitespace, and the first statement sqlparse returns
\* starts where the text starts, so that the test of line 128 is whether the
\* text, stripped and lowered, starts with "select" (as selectx does).
basic_sqlparse_ok(sql, parserRaises) ==
  IF parserRaises THEN FALSE
  ELSE IF sql = << >> THEN FALSE
  ELSE IF \A i \in 1..Len(sql) : IsSpace(sql[i]) THEN FALSE
  ELSE LET normalized == LowerStr(Strip(sql))
       IN normalized[1] = "select"

\* one entry of the error list: the message and, for the forbidden-keyword
\* message, the keywords it names
Err(m) == [msg |-> m, kws |-> {}]

ErrForbidden(forb) == [msg |-> "Forbidden keyword(s) present", kws |-> forb]

\* if cond: errors.append(e)
AppendIf(errors, cond, e) == IF cond THEN Append(errors, e) ELSE errors

\* validate_sql whose empty-input branch returns without recording the error
validate_sql_EmptyNoError(sql, parserRaises) ==
  LET trimmed == Strip(sql)
  IN IF trimmed = << >>
     THEN [ok |-> FALSE, errors |-> << >>]
     ELSE
       LET e1 == AppendIf(<< >>, Count(trimmed, ";") > 1,
                          Err("Multiple statements detected"))
           e2 == AppendIf(e1, ~EndsWith(trimmed, ";"),
                          Err("SQL should end with a semicolon"))
           e3 == AppendIf(e2, ~parentheses_match(trimmed),
                          Err("Mismatched parentheses/brackets."))
           e4 == AppendIf(e3, ~quotes_match(trimmed), Err("Mismatched quotes."))
           forb == contains_forbidden(trimmed)
           e5 == AppendIf(e4, forb # {}, ErrForbidden(forb))
           e6 == AppendIf(e5, ~has_select_from(trimmed),
                          Err("Missing SELECT and/or FROM clause."))
           e7 == AppendIf(e6, ~uses_known_tables(trimmed),
                          Err("No known schema tables referenced"))
           e8 == AppendIf(e7, ~basic_sqlparse_ok(trimmed, parserRaises),
                          Err("sqlparse could not detect a valid SELECT statement"))
       IN [ok |-> Len(e8) = 0, errors |-> e8]

\* if cond and nothing has failed so far: errors.append(e)
AppendIfFirst(errors, cond, e) ==
  IF cond /\ errors = << >> THEN Append(errors, e) ELSE errors

\* validate_sql that stops checking at the first failing check
validate_sql_ShortCircuit(sql, parserRaises) ==
  LET trimmed == Strip(sql)
  IN IF trimmed = << >>
     THEN [ok |-> FALSE, errors |-> << Err("Empty SQL.") >>]
     ELSE
       LET e1 == AppendIfFirst(<< >>, Count(trimmed, ";") > 1,
                               Err("Multiple statements detected"))
           e2 == AppendIfFirst(e1, ~EndsWith(trimmed, ";"),
                               Err("SQL should end with a semicolon"))
           e3 == AppendIfFirst(e2, ~parentheses_match(trimmed),
                               Err("Mismatched parentheses/brackets."))
           e4 == AppendIfFirst(e3, ~quotes_match(trimmed),
                               Err("Mismatched quotes."))
           forb == contains_forbidden(trimmed)
           e5 == AppendIfFirst(e4, forb # {}, ErrForbidden(forb))
           e6 == AppendIfFirst(e5, ~has_select_from(trimmed),
                               Err("Missing SELECT and/or FROM clause."))
           e7 == AppendIfFirst(e6, ~uses_known_tables(trimmed),
                               Err("No known schema tables referenced"))
           e8 == AppendIfFirst(e7, ~basic_sqlparse_ok(trimmed, parserRaises),
                               Err("sqlparse could not detect a valid SELECT statement"))
       IN [ok |-> Len(e8) = 0, errors |-> e8]

\* validate_sql: the pair (is_valid, errors) as a record
validate_sql(sql, parserRaises) ==
  LET trimmed == Strip(sql)
  IN IF trimmed = << >>
     THEN [ok |-> FALSE, errors |-> << Err("Empty SQL.") >>]
     ELSE
       LET e1 == AppendIf(<< >>, Count(trimmed, ";") > 1,
                          Err("Multiple statements detected"))
           e2 == AppendIf(e1, ~EndsWith(trimmed, ";"),
                          Err("SQL should end with a semicolon"))
           e3 == AppendIf(e2, ~parentheses_match(trimmed),
                          Err("Mismatched parentheses/brackets."))
           e4 == AppendIf(e3, ~quotes_match(trimmed), Err("Mismatched quotes."))
           forb == contains_forbidden(trimmed)
           e5 == AppendIf(e4, forb # {}, ErrForbidden(forb))
           e6 == AppendIf(e5, ~has_select_from(trimmed),
                          Err("Missing SELECT and/or FROM clause."))
           e7 == AppendIf(e6, ~uses_known_tables(trimmed),
                          Err("No known schema tables referenced"))
           e8 == AppendIf(e7, ~basic_sqlparse_ok(trimmed, parserRaises),
                          Err("sqlparse could not detect a valid SELECT statement"))
       IN [ok |-> Len(e8) = 0, errors |-> e8]

(***************************************************************************)
(* Candidate extraction.                                                   *)
(***************************************************************************)
\* positions where (?s)select\b.*?; with re.IGNORECASE can start: a unit
\* spelling select, followed by a non-word unit, with a semicolon after it
MatchStarts(text) ==
  {i \in 1..Len(text) :
     /\ Lower(text[i]) = "select"
     /\ i < Len(text)
     /\ ~IsWord(text[i + 1])
     /\ \E j \in (i + 1)..Len(text) : text[j] = ";"}

Min(S) == CHOOSE m \in S : \A n \in S : m <= n

\* re.search(r"(?s)(select\b.*?;)", text, flags=re.IGNORECASE): whether it
\* matches, and group(1): from the leftmost start to the first semicolon after
ReSearchSelect(text) ==
  LET starts == MatchStarts(text)
  IN IF starts = {} THEN [found |-> FALSE, group |-> << >>]
     ELSE LET i == Min(starts)
              j == Min({k \in (i + 1)..Len(text) : text[k] = ";"})
          IN [found |-> TRUE, group |-> SubSeq(text, i, j)]

\* [line.strip() for line in lines if line.strip()]
RECURSIVE StrippedNonEmpty(_)
StrippedNonEmpty(lines) ==
  IF lines = << >> THEN << >>
  ELSE IF Strip(Head(lines)) = << >> THEN StrippedNonEmpty(Tail(lines))
  ELSE << Strip(Head(lines)) >> \o StrippedNonEmpty(Tail(lines))

\* the extraction whose fallback does not append the semicolon
ExtractCandidate_NoAppend(candidate) ==
  LET sql_match == ReSearchSelect(candidate)
  IN IF sql_match.found THEN Strip(sql_match.group)
     ELSE JoinSpace(StrippedNonEmpty(SplitLines(Strip(candidate))))

\* the extraction whose fallback leaves an empty text empty, as the guard of
\* line 275 does
ExtractCandidate_KeepsEmpty(candidate) ==
  LET sql_match == ReSearchSelect(candidate)
  IN IF sql_match.found THEN Strip(sql_match.group)
     ELSE LET collapsed == JoinSpace(StrippedNonEmpty(SplitLines(Strip(candidate))))
          IN IF collapsed # << >> /\ ~EndsWith(collapsed, ";")
             THEN Append(collapsed, ";")
             ELSE collapsed

\* lines 233-243 of run(): the candidate statement of a raw model output
ExtractCandidate(candidate) ==
  LET sql_match == ReSearchSelect(candidate)
  IN IF sql_match.found THEN Strip(sql_match.group)
     ELSE LET collapsed == JoinSpace(StrippedNonEmpty(SplitLines(Strip(candidate))))
          IN IF ~EndsWith(collapsed, ";") THEN Append(collapsed, ";")
             ELSE collapsed

\* lines 269-276 of run(): the statement printed for final_sql
ExtractOutput(final_sql) ==
  LET final_match == ReSearchSelect(final_sql)
  IN IF final_match.found THEN Strip(final_match.group)
     ELSE LET output_sql == Strip(final_sql)
          IN IF output_sql # << >> /\ ~EndsWith(output_sql, ";")
             THEN Append(output_sql, ";")
             ELSE output_sql

(***************************************************************************)
(* The texts the generation pipeline returns in the model: every text over *)
(* RawUnits up to MaxRawLen units, and a few longer outputs.               *)
(***************************************************************************)
RawUnits == {"select", "x", " ", "\n", ";", "("}

SampleOutputs ==
  { <<"select", " ", "x", " ", "from", " ", "Users", ";">>,
    <<"SELECT", " ", "x", "\n", "from", " ", "Users", ";", "\n", "x", " ", "x">>,
    <<"DROP", " ", "TABLE", " ", "Users", ";">>,
    <<"x", " ", "select", " ", "x", " ", "from", " ", "Users">>,
    <<"select", "x", " ", "from", " ", "Users", ",", " ", "select">>,
    <<"select", " ", "(", "x", " ", "from", " ", "Users", ";">>,
    <<"select", " ", "update", "x", " ", "from", " ", "Users", ";">>,
    <<"select", " ", "x", " ", "from", " ", "Users", " ", "DROP", ";">> }

RawTexts == StringsUpTo(RawUnits, MaxRawLen) \cup SampleOutputs

(***************************************************************************)
(* State of one execution of the program (__main__ calling run()).         *)
(***************************************************************************)
VARIABLES
  pc,            \* the position of the execution in run()
  max_retries,   \* the argument of run()
  attempt,       \* the loop variable (0 before the loop)
  previous_sql,
  error_hint,
  final_sql,     \* [none |-> TRUE] models None
  prompt,        \* the values formatted into BASE_PROMPT
  candidate,     \* the raw output of the attempt
  candidate_sql,
  errors,        \* the errors of the last validation in the loop
  output_sql,
  stdout,        \* the writes to sys.stdout, in order
  stderr,        \* the kinds of the messages logged, in order
  exit_status,   \* -1 while the process runs
  loop_state,    \* ATTEMPTING, SUCCEEDED or EXHAUSTED
  gen_calls,     \* number of calls of generate_sql_from_model
  gen_failed,    \* number of those calls that raised
  validations,   \* number of validate_sql calls made inside the loop
  pauses,        \* number of time.sleep calls
  arg,           \* the argument of a function called on its own
  parser_raises, \* whether sqlparse.parse raises in that call
  fpc,           \* which function calls have been made on arg
  result,        \* what validate_sql returned
  extracted,     \* the extraction of arg
  re_extracted   \* the extraction of extracted

rvars ==
  << pc, max_retries, attempt, previous_sql, error_hint, final_sql, prompt,
     candidate, candidate_sql, errors, output_sql, stdout, stderr,
     exit_status, loop_state, gen_calls, gen_failed, validations, pauses >>

fvars == << arg, parser_raises, fpc, result, extracted, re_extracted >>

vars == << rvars, fvars >>

QUESTION == <<"x">>

None == [none |-> TRUE, val |-> << >>]

Some(v) == [none |-> FALSE, val |-> v]

\* log(...): one message on sys.stderr
log(stream, kind) == Append(stream, kind)

\* for e in errors: log(" -", e)
RECURSIVE LogEach(_, _)
LogEach(stream, errs) ==
  IF errs = << >> THEN stream
  ELSE LogEach(log(stream, "error"), Tail(errs))

\* " | ".join(errors): the messages with the delimiter between them
RECURSIVE JoinErrors(_)
JoinErrors(errs) ==
  IF errs = << >> THEN << >>
  ELSE IF Len(errs) = 1 THEN << errs[1] >>
  ELSE << errs[1], Err(" | ") >> \o JoinErrors(Tail(errs))

\* BASE_PROMPT.format(...): the template with its three values
FormatPrompt(q, prev, hint) ==
  [template |-> "BASE_PROMPT", question |-> q, previous_sql |-> prev,
   error_hint |-> hint]

Init ==
  /\ pc = "make_generator"
  /\ max_retries \in 1..MaxRetries
  /\ attempt = 0
  /\ previous_sql = << >>
  /\ error_hint = << >>
  /\ final_sql = None
  /\ prompt = FormatPrompt(<< >>, << >>, << >>)
  /\ candidate = << >>
  /\ candidate_sql = << >>
  /\ errors = << >>
  /\ output_sql = << >>
  /\ stdout = << >>
  /\ stderr = << >>
  /\ exit_status = -1
  /\ loop_state = "ATTEMPTING"
  /\ gen_calls = 0
  /\ gen_failed = 0
  /\ validations = 0
  /\ pauses = 0
  /\ arg = << >>
  /\ parser_raises = FALSE
  /\ fpc = "idle"
  /\ result = [ok |-> FALSE, errors |-> << >>]
  /\ extracted = << >>
  /\ re_extracted = << >>

\* make_generator returns a pipeline; run() initialises its locals and enters
\* the loop (max_retries >= 1, so range(1, max_retries + 1) is not empty)
MakeGeneratorOk ==
  /\ pc = "make_generator"
  /\ stderr' = log(stderr, "loading")
  /\ attempt' = 1
  /\ pc' = "prompt"
  /\ UNCHANGED << max_retries, previous_sql, error_hint, final_sql, prompt,
                  candidate, candidate_sql, errors, output_sql, stdout,
                  exit_status, loop_state, gen_calls, gen_failed, validations,
                  pauses >>
  /\ UNCHANGED fvars

\* both pipeline() calls of make_generator raise: the exception leaves run()
\* and __main__ logs it and exits with status 1
MakeGeneratorFails ==
  /\ pc = "make_generator"
  /\ stderr' = log(log(log(log(stderr, "loading"), "load_retry"),
                       "load_failed"), "fatal")
  /\ exit_status' = 1
  /\ pc' = "exited"
  /\ UNCHANGED << max_retries, attempt, previous_sql, error_hint, final_sql,
                  prompt, candidate, candidate_sql, errors, output_sql, stdout,
                  loop_state, gen_calls, gen_failed, validations, pauses >>
  /\ UNCHANGED fvars

\* lines 222-225: the prompt of this attempt
BuildPrompt ==
  /\ pc = "prompt"
  /\ prompt' = FormatPrompt(QUESTION, previous_sql, error_hint)
  /\ stderr' = log(log(log(stderr, "attempt"), "prompt_header"), "prompt")
  /\ pc' = "generate"
  /\ UNCHANGED << max_retries, attempt, previous_sql, error_hint, final_sql,
                  candidate, candidate_sql, errors, output_sql, stdout,
                  exit_status, loop_state, gen_calls, gen_failed, validations,
                  pauses >>
  /\ UNCHANGED fvars

\* lines 226-227: the pipeline returns text; generate_sql_from_model strips it
GenerateReturns ==
  /\ pc = "generate"
  /\ \E text \in RawTexts : candidate' = Strip(text)
  /\ gen_calls' = gen_calls + 1
  /\ pc' = "extract"
  /\ UNCHANGED << max_retries, attempt, previous_sql, error_hint, final_sql,
                  prompt, candidate_sql, errors, output_sql, stdout, stderr,
                  exit_status, loop_state, gen_failed, validations, pauses >>
  /\ UNCHANGED fvars

\* a generation failure that is not caught: it leaves run() and ends the
\* process with status 1
GenerateRaises_Aborts ==
  /\ pc = "generate"
  /\ stderr' = log(stderr, "fatal")
  /\ candidate' = << >>
  /\ gen_calls' = gen_calls + 1
  /\ gen_failed' = gen_failed + 1
  /\ exit_status' = 1
  /\ pc' = "exited"
  /\ UNCHANGED << max_retries, attempt, previous_sql, error_hint, final_sql,
                  prompt, candidate_sql, errors, output_sql, stdout,
                  loop_state, validations, pauses >>
  /\ UNCHANGED fvars

\* lines 228-230: the call raises
GenerateRaises ==
  /\ pc = "generate"
  /\ stderr' = log(stderr, "generation_failed")
  /\ candidate' = << >>
  /\ gen_calls' = gen_calls + 1
  /\ gen_failed' = gen_failed + 1
  /\ pc' = "extract"
  /\ UNCHANGED << max_retries, attempt, previous_sql, error_hint, final_sql,
                  prompt, candidate_sql, errors, output_sql, stdout,
                  exit_status, loop_state, validations, pauses >>
  /\ UNCHANGED fvars

\* the extraction step showing the candidate with print() instead of log()
Extract_PrintsCandidate ==
  /\ pc = "extract"
  /\ candidate_sql' = ExtractCandidate(candidate)
  /\ stderr' = log(log(stderr, "candidate_header"), "candidate")
  /\ stdout' = Append(stdout, Append(ExtractCandidate(candidate), "\n"))
  /\ pc' = "validate"
  /\ UNCHANGED << max_retries, attempt, previous_sql, error_hint, final_sql,
                  prompt, candidate, errors, output_sql, exit_status,
                  loop_state, gen_calls, gen_failed, validations, pauses >>
  /\ UNCHANGED fvars

\* lines 232-246
Extract ==
  /\ pc = "extract"
  /\ candidate_sql' = ExtractCandidate(candidate)
  /\ stderr' = log(log(stderr, "candidate_header"), "candidate")
  /\ pc' = "validate"
  /\ UNCHANGED << max_retries, attempt, previous_sql, error_hint, final_sql,
                  prompt, candidate, errors, output_sql, stdout, exit_status,
                  loop_state, gen_calls, gen_failed, validations, pauses >>
  /\ UNCHANGED fvars

\* a passing validation without the break: the loop goes on to the pause
ValidatePassed_NoBreak ==
  /\ pc = "validate"
  /\ LET r == validate_sql(candidate_sql, FALSE)
     IN /\ r.ok
        /\ errors' = r.errors
  /\ validations' = validations + 1
  /\ stderr' = log(stderr, "passed")
  /\ final_sql' = Some(candidate_sql)
  /\ pc' = "sleep"
  /\ UNCHANGED << max_retries, attempt, previous_sql, error_hint, prompt,
                  candidate, candidate_sql, output_sql, stdout, exit_status,
                  loop_state, gen_calls, gen_failed, pauses >>
  /\ UNCHANGED fvars

\* lines 247-251: the candidate passes; break.  (Inside run() the parser is
\* taken not to raise: it is a function of the text, and it parses the short
\* texts of the model.)
ValidatePassed ==
  /\ pc = "validate"
  /\ LET r == validate_sql(candidate_sql, FALSE)
     IN /\ r.ok
        /\ errors' = r.errors
  /\ validations' = validations + 1
  /\ stderr' = log(stderr, "passed")
  /\ final_sql' = Some(candidate_sql)
  /\ loop_state' = "SUCCEEDED"
  /\ pc' = "after_loop"
  /\ UNCHANGED << max_retries, attempt, previous_sql, error_hint, prompt,
                  candidate, candidate_sql, output_sql, stdout, exit_status,
                  gen_calls, gen_failed, pauses >>
  /\ UNCHANGED fvars

\* a failing validation that keeps only the first error as the hint
ValidateFailed_HintFirstErrorOnly ==
  /\ pc = "validate"
  /\ LET r == validate_sql(candidate_sql, FALSE)
     IN /\ ~r.ok
        /\ errors' = r.errors
        /\ stderr' = LogEach(log(stderr, "failed"), r.errors)
        /\ error_hint' = << r.errors[1] >>
  /\ validations' = validations + 1
  /\ previous_sql' = candidate_sql
  /\ pc' = "sleep"
  /\ UNCHANGED << max_retries, attempt, final_sql, prompt, candidate,
                  candidate_sql, output_sql, stdout, exit_status, loop_state,
                  gen_calls, gen_failed, pauses >>
  /\ UNCHANGED fvars

\* lines 247, 252-258: the candidate fails
ValidateFailed ==
  /\ pc = "validate"
  /\ LET r == validate_sql(candidate_sql, FALSE)
     IN /\ ~r.ok
        /\ errors' = r.errors
        /\ stderr' = LogEach(log(stderr, "failed"), r.errors)
        /\ error_hint' = JoinErrors(r.errors)
  /\ validations' = validations + 1
  /\ previous_sql' = candidate_sql
  /\ pc' = "sleep"
  /\ UNCHANGED << max_retries, attempt, final_sql, prompt, candidate,
                  candidate_sql, output_sql, stdout, exit_status, loop_state,
                  gen_calls, gen_failed, pauses >>
  /\ UNCHANGED fvars

\* the loop running one iteration too many: range(1, max_retries + 2)
SleepThenRetry_OffByOne ==
  /\ pc = "sleep"
  /\ attempt <= max_retries
  /\ pauses' = pauses + 1
  /\ attempt' = attempt + 1
  /\ pc' = "prompt"
  /\ UNCHANGED << max_retries, previous_sql, error_hint, final_sql, prompt,
                  candidate, candidate_sql, errors, output_sql, stdout, stderr,
                  exit_status, loop_state, gen_calls, gen_failed, validations >>
  /\ UNCHANGED fvars

\* line 260 and the next iteration of the for loop
SleepThenRetry ==
  /\ pc = "sleep"
  /\ attempt < max_retries
  /\ pauses' = pauses + 1
  /\ attempt' = attempt + 1
  /\ pc' = "prompt"
  /\ UNCHANGED << max_retries, previous_sql, error_hint, final_sql, prompt,
                  candidate, candidate_sql, errors, output_sql, stdout, stderr,
                  exit_status, loop_state, gen_calls, gen_failed, validations >>
  /\ UNCHANGED fvars

\* line 260 in the last iteration: the range is used up and the loop ends
SleepThenExhausted ==
  /\ pc = "sleep"
  /\ attempt = max_retries
  /\ pauses' = pauses + 1
  /\ loop_state' = "EXHAUSTED"
  /\ pc' = "after_loop"
  /\ UNCHANGED << max_retries, attempt, previous_sql, error_hint, final_sql,
                  prompt, candidate, candidate_sql, errors, output_sql, stdout,
                  stderr, exit_status, gen_calls, gen_failed, validations >>
  /\ UNCHANGED fvars

\* lines 263-276: the final statement and its re-extraction
AfterLoop ==
  /\ pc = "after_loop"
  /\ LET f == IF final_sql.none THEN previous_sql ELSE final_sql.val
     IN /\ final_sql' = Some(f)
        /\ output_sql' = ExtractOutput(f)
  /\ stderr' = IF final_sql.none THEN log(stderr, "exhausted") ELSE stderr
  /\ pc' = "print"
  /\ UNCHANGED << max_retries, attempt, previous_sql, error_hint, prompt,
                  candidate, candidate_sql, errors, stdout, exit_status,
                  loop_state, gen_calls, gen_failed, validations, pauses >>
  /\ UNCHANGED fvars

\* line 279: print(output_sql)
PrintOutput ==
  /\ pc = "print"
  /\ stdout' = Append(stdout, Append(output_sql, "\n"))
  /\ pc' = "summary"
  /\ UNCHANGED << max_retries, attempt, previous_sql, error_hint, final_sql,
                  prompt, candidate, candidate_sql, errors, output_sql, stderr,
                  exit_status, loop_state, gen_calls, gen_failed, validations,
                  pauses >>
  /\ UNCHANGED fvars

\* a summary that ends the process with status 1 when the final statement
\* fails validation
Summary_ExitOneIfInvalid ==
  /\ pc = "summary"
  /\ LET s1 == log(log(log(log(log(log(stderr, "summary"), "question"),
                 "model"), "attempts"), "final_header"), "final_sql")
     IN stderr' = IF ~validate_sql(output_sql, FALSE).ok
                  THEN log(s1, "warning")
                  ELSE s1
  /\ exit_status' = IF ~validate_sql(output_sql, FALSE).ok THEN 1 ELSE 0
  /\ pc' = "exited"
  /\ UNCHANGED << max_retries, attempt, previous_sql, error_hint, final_sql,
                  prompt, candidate, candidate_sql, errors, output_sql, stdout,
                  loop_state, gen_calls, gen_failed, validations, pauses >>
  /\ UNCHANGED fvars

\* lines 281-288, then run() returns and the process ends with status 0
Summary ==
  /\ pc = "summary"
  /\ LET s1 == log(log(log(log(log(log(stderr, "summary"), "question"),
                 "model"), "attempts"), "final_header"), "final_sql")
     IN stderr' = IF ~validate_sql(output_sql, FALSE).ok
                  THEN log(s1, "warning")
                  ELSE s1
  /\ exit_status' = 0
  /\ pc' = "exited"
  /\ UNCHANGED << max_retries, attempt, previous_sql, error_hint, final_sql,
                  prompt, candidate, candidate_sql, errors, output_sql, stdout,
                  loop_state, gen_calls, gen_failed, validations, pauses >>
  /\ UNCHANGED fvars

Next ==
  \/ MakeGeneratorOk
  \/ MakeGeneratorFails
  \/ BuildPrompt
  \/ GenerateReturns
  \/ GenerateRaises
  \/ Extract
  \/ ValidatePassed
  \/ ValidateFailed
  \/ SleepThenRetry
  \/ SleepThenExhausted
  \/ AfterLoop
  \/ PrintOutput
  \/ Summary

Spec == Init /\ [][Next]_vars

(***************************************************************************)
(* validate_sql and the extraction called on their own, on every text over *)
(* FnUnits up to MaxLen units and on the longer sample texts.              *)
(***************************************************************************)
FnUnits ==
  {"select", "from", "Users", "DROP", "x", " ", "\n", ";", "(", ")", "[", "]",
   "'"}

SampleTexts ==
  SampleOutputs \cup
  { <<"select", "x", " ", "from", " ", "Users", ";">>,
    <<"select", " ", "update", "x", " ", "from", " ", "Users", ";">>,
    <<"select", " ", "(", "x", ",", " ", "[", "x", ")", "]", ";">>,
    <<"select", " ", "x", ";", "DROP", " ", "TABLE", " ", "Users", "'">> }

FnTexts == StringsUpTo(FnUnits, MaxLen) \cup SampleTexts

InitFn ==
  /\ pc = "not_run"
  /\ max_retries = 1
  /\ attempt = 0
  /\ previous_sql = << >>
  /\ error_hint = << >>
  /\ final_sql = None
  /\ prompt = FormatPrompt(<< >>, << >>, << >>)
  /\ candidate = << >>
  /\ candidate_sql = << >>
  /\ errors = << >>
  /\ output_sql = << >>
  /\ stdout = << >>
  /\ stderr = << >>
  /\ exit_status = -1
  /\ loop_state = "ATTEMPTING"
  /\ gen_calls = 0
  /\ gen_failed = 0
  /\ validations = 0
  /\ pauses = 0
  /\ arg \in FnTexts
  /\ parser_raises \in BOOLEAN
  /\ fpc = "input"
  /\ result = [ok |-> FALSE, errors |-> << >>]
  /\ extracted = << >>
  /\ re_extracted = << >>

\* validate_sql(arg)
CallValidate ==
  /\ fpc = "input"
  /\ result' = validate_sql(arg, parser_raises)
  /\ fpc' = "validated"
  /\ UNCHANGED << arg, parser_raises, extracted, re_extracted >>
  /\ UNCHANGED rvars

\* the extraction of lines 233-243 applied to arg
CallExtract ==
  /\ fpc = "input"
  /\ ~parser_raises
  /\ extracted' = ExtractCandidate(arg)
  /\ fpc' = "extracted"
  /\ UNCHANGED << arg, parser_raises, result, re_extracted >>
  /\ UNCHANGED rvars

\* the same extraction applied to its own output
CallExtractAgain ==
  /\ fpc = "extracted"
  /\ re_extracted' = ExtractCandidate(extracted)
  /\ fpc' = "re_extracted"
  /\ UNCHANGED << arg, parser_raises, result, extracted >>
  /\ UNCHANGED rvars

NextFn ==
  \/ CallValidate
  \/ CallExtract
  \/ CallExtractAgain

SpecFn == InitFn /\ [][NextFn]_vars

(***************************************************************************)
(* Properties.                                                             *)
(***************************************************************************)
Terminal == {"SUCCEEDED", "EXHAUSTED"}

\* the steps left in the current iteration of the loop, by position
PcRank ==
  CASE pc = "prompt" -> 4
    [] pc = "generate" -> 3
    [] pc = "extract" -> 2
    [] pc = "validate" -> 1
    [] OTHER -> 0

\* an upper bound on the number of steps the execution can still take
Rank ==
  CASE pc = "exited" -> 0
    [] pc = "summary" -> 1
    [] pc = "print" -> 2
    [] pc = "after_loop" -> 3
    [] pc = "make_generator" -> 9 + 5 * max_retries
    [] OTHER -> 4 + 5 * (max_retries - attempt) + PcRank

\* a step of the execution is possible at its current position: the action of
\* the position is enabled or, where the step only applies a function to the
\* state, the function has a value there (at "validate" a Boolean verdict, so
\* that one of the two branches is taken)
CanStep ==
  CASE pc = "make_generator" -> ENABLED MakeGeneratorOk
    [] pc = "prompt" -> ENABLED BuildPrompt
    [] pc = "generate" -> ENABLED GenerateReturns /\ ENABLED GenerateRaises
    [] pc = "extract" -> ExtractCandidate(candidate) \in Seq(Units)
    [] pc = "validate" -> validate_sql(candidate_sql, FALSE).ok \in BOOLEAN
    [] pc = "sleep" -> ENABLED SleepThenRetry \/ ENABLED SleepThenExhausted
    [] pc = "after_loop" ->
         ExtractOutput(IF final_sql.none THEN previous_sql ELSE final_sql.val)
           \in Seq(Units)
    [] pc = "print" -> ENABLED PrintOutput
    [] pc = "summary" -> validate_sql(output_sql, FALSE).ok \in BOOLEAN
    [] OTHER -> FALSE

\* C1: run() makes at most max_retries generation calls and then reaches
\* SUCCEEDED or EXHAUSTED, whatever the generation service returns or raises
\* (every step is possible until the process has exited, every step lowers a
\* bound on the steps left, and the run exits in a terminal state unless the
\* generator could not be made); the attempt index only grows by one, and it
\* grows only after the validation of the current attempt has been made.
C1_BoundedAttempts ==
  /\ [](attempt <= max_retries /\ gen_calls <= attempt)
  /\ [][attempt' = attempt \/ attempt' = attempt + 1]_vars
  /\ [][(attempt >= 1 /\ attempt' = attempt + 1) => validations = attempt]_vars
  /\ [](Rank >= 0 /\ (pc # "exited" => CanStep))
  /\ [][Rank' < Rank]_vars
  /\ [](pc = "exited" => (loop_state \in Terminal \/ exit_status = 1))

C1_Witness ==
  /\ pc = "exited"
  /\ loop_state = "EXHAUSTED"
  /\ max_retries = MaxRetries
  /\ gen_calls = max_retries
  /\ gen_failed >= 1
  /\ gen_failed < gen_calls

C3_ExhaustedPrintsLastCandidate ==
  (pc = "exited" /\ loop_state = "EXHAUSTED") =>
     stdout = << Append(candidate_sql, "\n") >>

\* C4 (as the specification states it): when every generation call raised, every attempt has an
\* empty candidate and fails with the single error "Empty SQL.", and the run
\* ends EXHAUSTED with the empty string as its output.
C4_AllRaiseEmptySql ==
  (gen_calls >= 1 /\ gen_failed = gen_calls /\ validations = gen_calls) =>
     /\ candidate_sql = << >>
     /\ errors = << Err("Empty SQL.") >>
     /\ pc = "exited" => (loop_state = "EXHAUSTED" /\ output_sql = << >>)

\* C5: a generation call that raises does not end the run: the raw output of
\* the attempt is the empty string, the attempt is extracted and validated
\* like any other, the remaining attempts are still made, and the process
\* never exits with status 1 once the loop has been entered.
C5_GenerationFailureRecovered ==
  /\ [][(pc = "generate" /\ gen_failed' = gen_failed + 1) =>
          /\ candidate' = << >>
          /\ pc' = "extract"
          /\ exit_status' = -1]_vars
  /\ [][(pc = "extract" /\ candidate = << >>) =>
          /\ pc' = "validate"
          /\ candidate_sql' = ExtractCandidate(<< >>)]_vars
  /\ [](attempt >= 1 => exit_status # 1)
  /\ [](pc = "exited" /\ exit_status = 0 =>
          /\ loop_state \in Terminal
          /\ validations = gen_calls
          /\ loop_state = "EXHAUSTED" => gen_calls = max_retries)

C5_Witness ==
  /\ pc = "exited"
  /\ loop_state = "SUCCEEDED"
  /\ gen_failed >= 1
  /\ gen_calls = gen_failed + 1

\* C6 (as the specification states it): a completed run has logged the warning "final SQL did not
\* pass all validation checks" if and only if it ended EXHAUSTED.
C6_WarningIffExhausted ==
  (pc = "exited" /\ exit_status = 0) =>
     ((loop_state = "EXHAUSTED") <=> (\E i \in 1..Len(stderr) : stderr[i] = "warning"))

\* C7: nothing is written to primary output before the loop has reached its
\* terminal state; a run that completes makes exactly one write to it, the
\* statement extracted from final_sql followed by a newline; the verdict and
\* the candidate of every attempt are logged on the diagnostic stream.
C7_SingleWrite ==
  /\ []((pc \in {"summary", "exited"} /\ exit_status # 1) =>
          /\ loop_state \in Terminal
          /\ stdout = << Append(ExtractOutput(final_sql.val), "\n") >>)
  /\ []((pc \notin {"summary", "exited"} \/ exit_status = 1) => stdout = << >>)
  /\ [][stdout' # stdout => (pc = "print" /\ loop_state \in Terminal)]_vars
  /\ [](/\ Count(stderr, "passed") + Count(stderr, "failed") = validations
        /\ Count(stderr, "candidate") =
             validations + (IF pc = "validate" THEN 1 ELSE 0)
        /\ Count(stderr, "error") >= Count(stderr, "failed"))

C7_Witness ==
  /\ pc = "exited"
  /\ exit_status = 0
  /\ attempt = 2
  /\ Len(stdout) = 1
  /\ Len(stdout[1]) > 1
  /\ Count(stderr, "failed") >= 1
  /\ Count(stderr, "summary") = 1

\* C8: validate_sql returns, for every text and also when the parser raises,
\* a verdict and an error list such that the verdict is true exactly when the
\* list is empty.
C8_PassedIffNoErrors ==
  fpc = "validated" =>
     /\ result.ok \in BOOLEAN
     /\ DOMAIN result.errors = 1..Len(result.errors)
     /\ result.ok <=> (result.errors = << >>)

C8_Witness ==
  /\ fpc = "validated"
  /\ parser_raises
  /\ ~result.ok
  /\ Len(result.errors) = 1

\* the k-th check of the pipeline fails on the trimmed text t
CheckFails(k, t, raises) ==
  CASE k = 1 -> Count(t, ";") > 1
    [] k = 2 -> ~EndsWith(t, ";")
    [] k = 3 -> ~parentheses_match(t)
    [] k = 4 -> ~quotes_match(t)
    [] k = 5 -> contains_forbidden(t) # {}
    [] k = 6 -> ~has_select_from(t)
    [] k = 7 -> ~uses_known_tables(t)
    [] k = 8 -> ~basic_sqlparse_ok(t, raises)

\* the message of the k-th check
CheckMsg(k) ==
  CASE k = 1 -> "Multiple statements detected"
    [] k = 2 -> "SQL should end with a semicolon"
    [] k = 3 -> "Mismatched parentheses/brackets."
    [] k = 4 -> "Mismatched quotes."
    [] k = 5 -> "Forbidden keyword(s) present"
    [] k = 6 -> "Missing SELECT and/or FROM clause."
    [] k = 7 -> "No known schema tables referenced"
    [] k = 8 -> "sqlparse could not detect a valid SELECT statement"

\* C9: for a text that is not empty after trimming, the error list of
\* validate_sql has exactly one entry for each of the eight checks that
\* fails, whatever the other checks found, in the order of the pipeline; a
\* text that is empty after trimming gets the single error "Empty SQL.".
C9_NoShortCircuit ==
  fpc = "validated" =>
     LET t == Strip(arg)
         failing == {k \in 1..8 : CheckFails(k, t, parser_raises)}
         errs == result.errors
     IN IF t = << >>
        THEN errs = << Err("Empty SQL.") >>
        ELSE /\ Len(errs) = Cardinality(failing)
             /\ \A k \in failing : \E i \in 1..Len(errs) : errs[i].msg = CheckMsg(k)
             /\ \A i, j \in 1..Len(errs) :
                  i < j => \E k, l \in failing :
                             /\ k < l
                             /\ errs[i].msg = CheckMsg(k)
                             /\ errs[j].msg = CheckMsg(l)

C9_Witness ==
  /\ fpc = "validated"
  /\ Len(result.errors) >= 4
  /\ result.errors[1].msg = "Multiple statements detected"
  /\ result.errors[Len(result.errors)].msg =
       "sqlparse could not detect a valid SELECT statement"

\* C10 (as the specification states it): extracting from the output of the extraction returns
\* that output unchanged.
C10_ExtractIdempotent ==
  fpc = "re_extracted" => re_extracted = extracted

\* a denylisted verb stands in s as a whole word, in any letter case
HasForbiddenWord(s) ==
  \E i \in 1..Len(s) :
    /\ Lower(s[i]) \in FORBIDDEN_WORDS
    /\ (i = 1 \/ s[i - 1] \notin WordUnits)
    /\ (i = Len(s) \/ s[i + 1] \notin WordUnits)

\* C11: in SUCCEEDED neither final_sql nor the statement printed from it
\* contains a denylisted verb as a whole word in any letter case, whatever the
\* generation service returned; a candidate in which such a verb only occurs
\* inside a longer word gets no forbidden-keyword error.
C11_NoForbiddenInOutcome ==
  /\ [](loop_state = "SUCCEEDED" =>
          /\ ~HasForbiddenWord(final_sql.val)
          /\ pc \in {"print", "summary", "exited"} => ~HasForbiddenWord(output_sql))
  /\ [][(pc = "validate" /\ ~HasForbiddenWord(candidate_sql)) =>
          \A i \in 1..Len(errors') :
             errors'[i].msg # "Forbidden keyword(s) present"]_vars
  /\ [][(pc = "validate" /\ HasForbiddenWord(candidate_sql)) =>
          /\ loop_state' # "SUCCEEDED"
          /\ \E i \in 1..Len(errors') :
               errors'[i].msg = "Forbidden keyword(s) present"]_vars

C11_Witness ==
  /\ pc = "exited"
  /\ loop_state = "SUCCEEDED"
  /\ \E i \in 1..(Len(final_sql.val) - 1) :
       /\ final_sql.val[i] = "update"
       /\ IsWord(final_sql.val[i + 1])
  /\ stdout = << Append(final_sql.val, "\n") >>

\* C12: the process exits with status 1 exactly when make_generator failed,
\* and then no attempt was made and nothing was written to primary output;
\* every other run, one that ends EXHAUSTED included, exits with status 0
\* after printing its statement.
C12_ExitStatus ==
  /\ [](pc = "exited" <=> exit_status \in {0, 1})
  /\ [](exit_status \in {-1, 0, 1})
  /\ [][exit_status' = 1 <=> (pc = "make_generator" /\ pc' = "exited")]_vars
  /\ [](exit_status = 1 =>
          /\ stderr[Len(stderr)] = "fatal"
          /\ attempt = 0
          /\ gen_calls = 0
          /\ validations = 0
          /\ stdout = << >>)
  /\ [](exit_status = 0 =>
          /\ loop_state \in Terminal
          /\ attempt >= 1
          /\ stdout = << Append(output_sql, "\n") >>)
  /\ [](loop_state \in Terminal => exit_status # 1)

C12_Witness ==
  /\ pc = "exited"
  /\ exit_status = 0
  /\ loop_state = "EXHAUSTED"
  /\ ~validate_sql(output_sql, FALSE).ok
  /\ stderr[Len(stderr)] = "warning"

BracketPairs == { <<"(", ")">>, <<"[", "]">>, <<"{", "}">> }

IsBracket(c) == \E p \in BracketPairs : c = p[1] \/ c = p[2]

\* b with every opener that is directly followed by its own closer removed,
\* again and again until no such pair is left
RECURSIVE CancelPairs(_)
CancelPairs(b) ==
  LET adjacent == {i \in 1..(Len(b) - 1) : << b[i], b[i + 1] >> \in BracketPairs}
  IN IF adjacent = {} THEN b
     ELSE LET i == CHOOSE k \in adjacent : TRUE
          IN CancelPairs(SubSeq(b, 1, i - 1) \o SubSeq(b, i + 2, Len(b)))

\* every closer of s closes the most recent opener still open, and no opener
\* stays open: the brackets of s cancel out pair by pair
WellNested(s) == CancelPairs(SelectSeq(s, IsBracket)) = << >>

\* C13: parentheses_match is true exactly for the texts whose brackets
\* ( ) [ ] { } are well nested (last opened, first closed; none left open),
\* and validate_sql reports the bracket error exactly for the others; equal
\* numbers of openers and closers are not enough, as in ( [ ) ].
C13_BracketsLifo ==
  fpc = "validated" =>
     /\ parentheses_match(arg) <=> WellNested(arg)
     /\ parentheses_match(<<"(", "[", ")", "]">>) = FALSE
     /\ Strip(arg) # << >> =>
          ((\E i \in 1..Len(result.errors) :
               result.errors[i].msg = "Mismatched parentheses/brackets.")
             <=> ~WellNested(Strip(arg)))

C13_Witness ==
  /\ fpc = "validated"
  /\ Count(arg, "(") = 1
  /\ Count(arg, ")") = 1
  /\ Count(arg, "[") = 1
  /\ Count(arg, "]") = 1
  /\ Len(arg) > 4
  /\ \E i \in 1..Len(result.errors) :
       result.errors[i].msg = "Mismatched parentheses/brackets."

C15_PauseOnlyBeforeRetry ==
  /\ attempt >= 1 => pauses <= attempt - 1
  /\ loop_state = "EXHAUSTED" => pauses <= max_retries - 1

\* C16 (as the specification states it): in SUCCEEDED the statement written
\* to primary output is the validated candidate, unit for unit.
C16_PrintedIsValidatedCandidate ==
  (pc = "exited" /\ loop_state = "SUCCEEDED") =>
     stdout = << Append(candidate_sql, "\n") >>

\* C17: every candidate validated inside the loop is a non-empty text ending
\* with a semicolon, whatever the generation call returned or raised; so the
\* errors "Empty SQL." and "SQL should end with a semicolon" never occur in
\* the loop, and the statement of an EXHAUSTED run is not empty.
C17_CandidateEndsWithSemicolon ==
  /\ [](pc = "validate" =>
          /\ candidate_sql # << >>
          /\ Strip(candidate_sql) = candidate_sql
          /\ EndsWith(candidate_sql, ";"))
  /\ [](\A i \in 1..Len(errors) :
          errors[i].msg \notin {"Empty SQL.", "SQL should end with a semicolon"})
  /\ [](loop_state = "EXHAUSTED" =>
          /\ previous_sql # << >>
          /\ pc \in {"print", "summary", "exited"} =>
               (final_sql.val # << >> /\ output_sql # << >>))

C17_Witness ==
  /\ pc = "exited"
  /\ loop_state = "EXHAUSTED"
  /\ gen_calls >= 1
  /\ gen_failed = gen_calls
  /\ output_sql = << ";" >>
  /\ Len(errors) = 3

\* C18: when an attempt starts, previous_sql is empty exactly when error_hint
\* is, and that is exactly at attempt 1, before any attempt has failed; a
\* failed attempt leaves both non-empty, holding its candidate and the join
\* of its errors.
C18_FeedbackEmptyTogether ==
  /\ [](pc = "prompt" =>
          /\ (previous_sql = << >>) <=> (error_hint = << >>)
          /\ (previous_sql = << >>) <=> (attempt = 1)
          /\ (attempt = 1) <=> (Count(stderr, "failed") = 0))
  /\ [][(pc = "validate" /\ ~validate_sql(candidate_sql, FALSE).ok) =>
          /\ previous_sql' = candidate_sql
          /\ error_hint' = JoinErrors(validate_sql(candidate_sql, FALSE).errors)
          /\ previous_sql' # << >>
          /\ error_hint' # << >>]_vars
  /\ [](Count(stderr, "failed") >= 1 =>
          /\ previous_sql # << >>
          /\ error_hint # << >>
          /\ pc \in {"sleep", "prompt"} =>
               (previous_sql = candidate_sql /\ error_hint = JoinErrors(errors)))

C18_Witness ==
  /\ pc = "prompt"
  /\ attempt = 2
  /\ gen_failed = 1
  /\ previous_sql = << ";" >>
  /\ Len(error_hint) = 5

====
